---------------------------- MODULE Spec2Model ----------------------------
(***************************************************************************)
(* Model of the three ODE entry points of sweetsour-phenology:             *)
(*   one_plant_ode, one_plant_season_ode, landscape_constantF_ode.         *)
(*                                                                         *)
(* Numbers.  The program computes in `double'.  Here a real number r is    *)
(* the integer Round(r * Scale): finite-precision arithmetic in which      *)
(* every product and quotient is rounded to the nearest representable      *)
(* value (sums and differences are exact).  Exponents u, h, k are natural  *)
(* numbers.  Time is a number like any other (t = step * dt).              *)
(*                                                                         *)
(* A state vector is a sequence of rows: one row <<Y, B, N>> for the       *)
(* single-plant models, one row <<Y, B>> per plant for the landscape.      *)
(***************************************************************************)
EXTENDS Integers, Sequences, FiniteSets

VARIABLES
    entry,    \* the entry point being called
    inp,      \* its arguments
    run,      \* 1: first call, 2: second call with the same arguments
    pc,       \* position inside the call
    x,        \* the live state vector
    step,     \* integrate_const's step counter
    stage,    \* index of the next stage evaluation inside do_step
    ks,       \* stage derivatives computed so far in this step
    obs,      \* the observer object: [data, time]
    weights,  \* LandConstFSystemFunction::weights (private member)
    wts,      \* landscape_constantF_ode's local wts vector (output loop)
    osamp,    \* output loop index
    output,   \* the NumericMatrix being returned: [nrow, ncol, rows]
    out1,     \* what the first call returned
    ncalls,   \* number of system-function invocations in this call
    call      \* the last system-function invocation: argument and results

vars == <<entry, inp, run, pc, x, step, stage, ks, obs, weights, wts, osamp,
          output, out1, ncalls, call>>

---------------------------------------------------------------------------
(* Bounds of the model *)

\* resolution of the number representation: 1.0 is Scale
Scale == 1000

\* the landscape has 0..MaxPlants plants
MaxPlants == 2

\* initial populations / proportions are drawn from a grid of MaxLevel+1 values
MaxLevel == 2

---------------------------------------------------------------------------
(* Finite-precision arithmetic *)

Abs(a) == IF a < 0 THEN -a ELSE a

\* n / d rounded to the nearest integer (ties away from zero), d # 0
RoundDiv(n, d) ==
    LET s == IF (n < 0) = (d < 0) THEN 1 ELSE -1
    IN  s * ((2 * Abs(n) + Abs(d)) \div (2 * Abs(d)))

\* the number n/d
Fx(n, d) == RoundDiv(n * Scale, d)

FxMul(a, b) == RoundDiv(a * b, Scale)

FxDiv(a, b) == RoundDiv(a * Scale, b)

\* std::pow(a, e) for a natural exponent e; pow(a, 0) = 1
RECURSIVE FxPow(_, _)
FxPow(a, e) == IF e = 0 THEN Scale ELSE FxMul(a, FxPow(a, e - 1))

\* exp(-z) for 0 <= z <= 1/2 by its Taylor polynomial of degree 6
ExpSeries(z) ==
    LET t1 == -z
        t2 == RoundDiv(FxMul(t1, -z), 2)
        t3 == RoundDiv(FxMul(t2, -z), 3)
        t4 == RoundDiv(FxMul(t3, -z), 4)
        t5 == RoundDiv(FxMul(t4, -z), 5)
        t6 == RoundDiv(FxMul(t5, -z), 6)
    IN  Scale + t1 + t2 + t3 + t4 + t5 + t6

\* std::exp(-z) for z >= 0: exp(-z) = exp(-z/2)^2
RECURSIVE FxExpNeg(_)
FxExpNeg(z) ==
    IF 2 * z <= Scale THEN ExpSeries(z)
    ELSE LET r == FxExpNeg(RoundDiv(z, 2)) IN FxMul(r, r)

RECURSIVE SeqSum(_)
SeqSum(s) == IF s = <<>> THEN 0 ELSE s[1] + SeqSum(Tail(s))

---------------------------------------------------------------------------
(* State algebra used by the stepper *)

VAdd(a, b) == [i \in 1..Len(a) |-> [j \in 1..Len(a[i]) |-> a[i][j] + b[i][j]]]

\* c * a for a number c
VScale(c, a) == [i \in 1..Len(a) |-> [j \in 1..Len(a[i]) |-> FxMul(c, a[i][j])]]

---------------------------------------------------------------------------
(* Single-plant model, constant input *)

\* OnePlantSystemFunction's constructor: the parameters, with s_0^h and f_0^u
OnePlantSystemFunction(a) ==
    [m |-> a.m, R |-> a.R, d_yp |-> a.d_yp, d_b0 |-> a.d_b0, d_bp |-> a.d_bp,
     g_yp |-> a.g_yp, g_b0 |-> a.g_b0, g_bp |-> a.g_bp, L_0 |-> a.L_0,
     P_max |-> a.P_max, q |-> a.q, s_0_h |-> FxPow(a.s_0, a.h), h |-> a.h,
     f_0_u |-> FxPow(a.f_0, a.u), F_tilde |-> a.F_tilde, u |-> a.u]

\* the mutant: dNdt loses only the flux to Y
OnePlantSystemFunction_call_noB(sys, xx, t) ==
    LET Y == xx[1][1]
        B == xx[1][2]
        N == xx[1][3]
        F == Y + B + N
        FF_u == FxPow(FxDiv(F, F + sys.F_tilde), sys.u)
        phi == FxDiv(FF_u, sys.f_0_u + FF_u)
        psi == FxDiv(sys.s_0_h, sys.s_0_h + FxPow(FxDiv(B, F), sys.h))
        P == FxMul(sys.P_max, FxMul(sys.q, psi) + FxMul(Scale - sys.q, phi))
        PF == FxDiv(P, F)
        Lambda == FxDiv(PF, sys.L_0 + PF)
        gamma_y == FxMul(sys.g_yp, Lambda)
        gamma_b == sys.g_b0 + FxMul(sys.g_bp, Lambda)
        delta_y == FxMul(sys.d_yp, Lambda)
        delta_b == sys.d_b0 + FxMul(sys.d_bp, Lambda)
        disp_y == FxDiv(FxMul(delta_y, Y), F) + gamma_y
        disp_b == FxDiv(FxMul(delta_b, B), F) + gamma_b
        dYdt == FxMul(disp_y, N) - FxMul(sys.m, Y)
        dBdt == FxMul(disp_b, N) - FxMul(sys.m, B)
        dNdt == sys.R - FxMul(N, sys.m + disp_y)
    IN  [dxdt |-> << <<dYdt, dBdt, dNdt>> >>, P |-> P, R |-> sys.R]

\* OnePlantSystemFunction::operator()(x, dxdt, t)
OnePlantSystemFunction_call(sys, xx, t) ==
    LET Y == xx[1][1]
        B == xx[1][2]
        N == xx[1][3]
        F == Y + B + N
        FF_u == FxPow(FxDiv(F, F + sys.F_tilde), sys.u)
        phi == FxDiv(FF_u, sys.f_0_u + FF_u)
        psi == FxDiv(sys.s_0_h, sys.s_0_h + FxPow(FxDiv(B, F), sys.h))
        P == FxMul(sys.P_max, FxMul(sys.q, psi) + FxMul(Scale - sys.q, phi))
        PF == FxDiv(P, F)
        Lambda == FxDiv(PF, sys.L_0 + PF)
        gamma_y == FxMul(sys.g_yp, Lambda)
        gamma_b == sys.g_b0 + FxMul(sys.g_bp, Lambda)
        delta_y == FxMul(sys.d_yp, Lambda)
        delta_b == sys.d_b0 + FxMul(sys.d_bp, Lambda)
        disp_y == FxDiv(FxMul(delta_y, Y), F) + gamma_y
        disp_b == FxDiv(FxMul(delta_b, B), F) + gamma_b
        dYdt == FxMul(disp_y, N) - FxMul(sys.m, Y)
        dBdt == FxMul(disp_b, N) - FxMul(sys.m, B)
        dNdt == sys.R - FxMul(N, sys.m + disp_y + disp_b)
    IN  [dxdt |-> << <<dYdt, dBdt, dNdt>> >>, P |-> P, R |-> sys.R]

\* one_plant_ode's output loop body: the P column of a row with state s
one_plant_ode_P(a, s) ==
    LET f_0_u == FxPow(a.f_0, a.u)
        s_0_h == FxPow(a.s_0, a.h)
        F == s[1] + s[2] + s[3]
        F_u == FxPow(F, a.u)
        phi == FxDiv(F_u, f_0_u + F_u)
        psi == FxDiv(s_0_h, s_0_h + FxPow(FxDiv(s[2], F), a.h))
    IN  FxMul(a.P_max, FxMul(a.q, psi) + FxMul(Scale - a.q, phi))

---------------------------------------------------------------------------
(* Single-plant model, seasonal input *)

OnePlantSeasonSystemFunction(a) ==
    [m |-> a.m, d_yp |-> a.d_yp, d_b0 |-> a.d_b0, d_bp |-> a.d_bp,
     g_yp |-> a.g_yp, g_b0 |-> a.g_b0, g_bp |-> a.g_bp, L_0 |-> a.L_0,
     P_max |-> a.P_max, q |-> a.q, s_0_h |-> FxPow(a.s_0, a.h), h |-> a.h,
     f_0_u |-> FxPow(a.f_0, a.u), F_tilde |-> a.F_tilde, u |-> a.u,
     R_hat |-> a.R_hat, t0 |-> a.t0, k |-> a.k, lambda |-> a.lambda]

\* OnePlantSeasonSystemFunction::operator()(x, dxdt, t)
OnePlantSeasonSystemFunction_call(sys, xx, t) ==
    LET Y == xx[1][1]
        B == xx[1][2]
        N == xx[1][3]
        z == FxDiv(t + sys.t0, sys.lambda)
        R == FxMul(FxMul(FxMul(sys.R_hat, FxDiv(sys.k * Scale, sys.lambda)),
                         FxPow(z, sys.k - 1)),
                   FxExpNeg(FxPow(z, sys.k)))
        F == Y + B + N
        FF_u == FxPow(FxDiv(F, F + sys.F_tilde), sys.u)
        phi == FxDiv(FF_u, sys.f_0_u + FF_u)
        psi == FxDiv(sys.s_0_h, sys.s_0_h + FxPow(FxDiv(B, F), sys.h))
        P == FxMul(sys.P_max, FxMul(sys.q, psi) + FxMul(Scale - sys.q, phi))
        PF == FxDiv(P, F)
        Lambda == FxDiv(PF, sys.L_0 + PF)
        gamma_y == FxMul(sys.g_yp, Lambda)
        gamma_b == sys.g_b0 + FxMul(sys.g_bp, Lambda)
        delta_y == FxMul(sys.d_yp, Lambda)
        delta_b == sys.d_b0 + FxMul(sys.d_bp, Lambda)
        disp_y == FxDiv(FxMul(delta_y, Y), F) + gamma_y
        disp_b == FxDiv(FxMul(delta_b, B), F) + gamma_b
        dYdt == FxMul(disp_y, N) - FxMul(sys.m, Y)
        dBdt == FxMul(disp_b, N) - FxMul(sys.m, B)
        dNdt == R - FxMul(N, sys.m + disp_y + disp_b)
    IN  [dxdt |-> << <<dYdt, dBdt, dNdt>> >>, P |-> P, R |-> R]

\* one_plant_season_ode's output loop body: the P column of a row with state s
one_plant_season_ode_P(a, s) ==
    LET f_0_u == FxPow(a.f_0, a.u)
        s_0_h == FxPow(a.s_0, a.h)
        F == s[1] + s[2] + s[3]
        FF_u == FxPow(FxDiv(F, F + a.F_tilde), a.u)
        phi == FxDiv(FF_u, f_0_u + FF_u)
        psi == FxDiv(s_0_h, s_0_h + FxPow(FxDiv(s[2], F), a.h))
    IN  FxMul(a.P_max, FxMul(a.q, psi) + FxMul(Scale - a.q, phi))

---------------------------------------------------------------------------
(* Landscape model *)

\* LandConstFSystemFunction's constructor; weights is built with n_plants zeros
LandConstFSystemFunction(a) ==
    [m |-> a.m, d_yp |-> a.d_yp, d_b0 |-> a.d_b0, d_bp |-> a.d_bp,
     g_yp |-> a.g_yp, g_b0 |-> a.g_b0, g_bp |-> a.g_bp, L_0 |-> a.L_0,
     u |-> a.u, X |-> a.X, n_plants |-> Len(a.m)]

LandConstFSystemFunction_weights(a) == [i \in 1..Len(a.m) |-> 0]

\* the mutant: each weight is normalised inside the accumulation loop, by the
\* sum accumulated so far
make_weights_running(sys, wts_vec, xx) ==
    LET w == [i \in 1..sys.n_plants |-> FxPow(Scale - xx[i][2], sys.u)]
    IN  [i \in 1..sys.n_plants |->
            FxDiv(w[i], sys.X + SeqSum(SubSeq(w, 1, i)))]

\* the mutant: palatability is read from column 0 (Y) instead of column 1 (B)
make_weights_colY(sys, wts_vec, xx) ==
    LET w == [i \in 1..sys.n_plants |-> FxPow(Scale - xx[i][1], sys.u)]
        wt_sum == SeqSum(w)
    IN  [i \in 1..sys.n_plants |-> FxDiv(w[i], sys.X + wt_sum)]

\* LandConstFSystemFunction::make_weights(wts_vec, x): the new wts_vec
make_weights(sys, wts_vec, xx) ==
    LET w == [i \in 1..sys.n_plants |-> FxPow(Scale - xx[i][2], sys.u)]
        wt_sum == SeqSum(w)
    IN  [i \in 1..sys.n_plants |-> FxDiv(w[i], sys.X + wt_sum)]

\* LandConstFSystemFunction::one_plant(i, x, dxdt, t): row i of dxdt
one_plant(sys, wv, i, xx, t) ==
    LET Y == xx[i][1]
        B == xx[i][2]
        N == Scale - Y - B
        P == wv[i]
        Lambda == FxDiv(P, sys.L_0[i] + P)
        gamma_y == FxMul(sys.g_yp[i], Lambda)
        gamma_b == sys.g_b0[i] + FxMul(sys.g_bp[i], Lambda)
        delta_y == FxMul(sys.d_yp[i], Lambda)
        delta_b == sys.d_b0[i] + FxMul(sys.d_bp[i], Lambda)
        disp_y == FxMul(delta_y, Y) + gamma_y
        disp_b == FxMul(delta_b, B) + gamma_b
        dYdt == FxMul(disp_y, N) - FxMul(sys.m[i], Y)
        dBdt == FxMul(disp_b, N) - FxMul(sys.m[i], B)
    IN  <<dYdt, dBdt>>

\* the mutant: the weights are computed on the first invocation only and
\* reused afterwards
LandConstFSystemFunction_call_cached(sys, wv, xx, t) ==
    LET w == IF \E i \in 1..Len(wv) : wv[i] # 0 THEN wv
             ELSE make_weights(sys, wv, xx)
    IN  [weights |-> w,
         dxdt |-> [i \in 1..sys.n_plants |-> one_plant(sys, w, i, xx, t)],
         P |-> w]

\* LandConstFSystemFunction::operator()(x, dxdt, t); wv is this->weights
\* before the call, P the weights one_plant read
LandConstFSystemFunction_call(sys, wv, xx, t) ==
    LET w == make_weights(sys, wv, xx)
    IN  [weights |-> w,
         dxdt |-> [i \in 1..sys.n_plants |-> one_plant(sys, w, i, xx, t)],
         P |-> w]

\* len_check(err, vec, name, np) of ode.h: sets err when vec's length is not np
len_check(err, vec, np) == err \/ Len(vec) # np

\* the mutant: the check of B0 is missing
landscape_constantF_ode_err_noB0(a) ==
    LET np == Len(a.m)
        e1 == len_check(FALSE, a.d_yp, np)
        e2 == len_check(e1, a.d_b0, np)
        e3 == len_check(e2, a.d_bp, np)
        e4 == len_check(e3, a.g_yp, np)
        e5 == len_check(e4, a.g_b0, np)
        e6 == len_check(e5, a.g_bp, np)
        e7 == len_check(e6, a.L_0, np)
        e8 == len_check(e7, a.Y0, np)
    IN  e8

\* landscape_constantF_ode: the value of err after the nine length checks
landscape_constantF_ode_err(a) ==
    LET np == Len(a.m)
        e1 == len_check(FALSE, a.d_yp, np)
        e2 == len_check(e1, a.d_b0, np)
        e3 == len_check(e2, a.d_bp, np)
        e4 == len_check(e3, a.g_yp, np)
        e5 == len_check(e4, a.g_b0, np)
        e6 == len_check(e5, a.g_bp, np)
        e7 == len_check(e6, a.L_0, np)
        e8 == len_check(e7, a.Y0, np)
        e9 == len_check(e8, a.B0, np)
    IN  e9

\* a read of v[i]; outside v's extent the value read is arbitrary, here 0
At(v, i) == IF i \in 1..Len(v) THEN v[i] ELSE 0

\* landscape_constantF_ode: the initial state matrix
landscape_constantF_ode_x(a) ==
    [i \in 1..Len(a.m) |-> <<At(a.Y0, i), At(a.B0, i)>>]

\* NumericMatrix(0, 0)
EmptyMatrix == [nrow |-> 0, ncol |-> 0, rows |-> <<>>]

---------------------------------------------------------------------------
(* integrate_const with a fixed-step stepper, and the observers *)

\* the stepper's number of stage evaluations per step (classical Runge-Kutta)
NStages == 4

\* the mutant: the loop runs while time < end_time
CanStep_lt(n, dt, max_t) == n * dt < max_t

\* the mutant: the loop runs while time + dt < end_time
CanStep_strict(n, dt, max_t) == (n + 1) * dt < max_t

\* the mutant: one more step is taken at the horizon
CanStep_extra(n, dt, max_t) == n * dt <= max_t

\* integrate_const's loop test after n steps: time + dt <= end_time,
\* with time = start_time + n * dt and start_time = 0
CanStep(n, dt, max_t) == (n + 1) * dt <= max_t

\* the state a stage evaluates the system function at
StageArg(xx, kk, st, dt) ==
    CASE st = 1 -> xx
      [] st = 2 -> VAdd(xx, VScale(RoundDiv(dt, 2), kk[1]))
      [] st = 3 -> VAdd(xx, VScale(RoundDiv(dt, 2), kk[2]))
      [] OTHER  -> VAdd(xx, VScale(dt, kk[3]))

\* the time a stage evaluates the system function at
StageTime(t, st, dt) ==
    CASE st = 1 -> t
      [] st = 2 -> t + RoundDiv(dt, 2)
      [] st = 3 -> t + RoundDiv(dt, 2)
      [] OTHER  -> t + dt

\* the state after the step: x + dt/6 (k1 + 2 k2 + 2 k3 + k4)
StepResult(xx, kk, dt) ==
    [i \in 1..Len(xx) |-> [j \in 1..Len(xx[i]) |->
        xx[i][j] + RoundDiv(dt * (kk[1][i][j] + 2 * kk[2][i][j]
                                  + 2 * kk[3][i][j] + kk[4][i][j]),
                            6 * Scale)]]

\* the mutant: a function-static observer, which keeps its records
OnePlantObserver_static == obs

\* OnePlantObserver's constructor
OnePlantObserver == [data |-> <<>>, time |-> <<>>]

\* OnePlantObserver::operator()(x, t)
OnePlantObserver_call(o, xx, t) ==
    [data |-> Append(o.data, xx), time |-> Append(o.time, t)]

\* Observer<T> of ode.h and its operator()(x, t)
Observer == [data |-> <<>>, time |-> <<>>]

Observer_call(o, xx, t) ==
    [data |-> Append(o.data, xx), time |-> Append(o.time, t)]

---------------------------------------------------------------------------
(* The arguments the entry points are called with *)

\* populations of the single-plant models
Levels == {Fx(j, 2) : j \in 0..MaxLevel}

\* proportions of the landscape model
PropLevels == {Fx(j, MaxLevel) : j \in 0..MaxLevel}

\* <<dt, max_t>>: dt divides max_t, dt = max_t, dt does not divide max_t,
\* dt > max_t
TimeGrid == { <<Fx(1, 10), Fx(1, 1)>>, <<Fx(1, 2), Fx(1, 2)>>,
              <<Fx(3, 10), Fx(1, 1)>>, <<Fx(1, 1), Fx(1, 2)>> }

BaseOne ==
    [m |-> Fx(1, 10), R |-> Fx(1, 1), d_yp |-> Fx(2, 10), d_b0 |-> Fx(5, 100),
     d_bp |-> Fx(1, 10), g_yp |-> Fx(3, 10), g_b0 |-> Fx(5, 100),
     g_bp |-> Fx(1, 10), L_0 |-> Fx(1, 1), P_max |-> Fx(5, 1), q |-> Fx(1, 2),
     s_0 |-> Fx(1, 1), h |-> 2, f_0 |-> Fx(1, 1), F_tilde |-> Fx(1, 1),
     u |-> 2, dt |-> Fx(1, 10), max_t |-> Fx(1, 1),
     Y0 |-> Fx(1, 1), B0 |-> Fx(1, 1), N0 |-> Fx(1, 1)]

\* <<m, R, u, h, q>>
OneConfigs == { <<Fx(1, 10), Fx(1, 1), 2, 2, Fx(1, 2)>>,
                <<0, 0, 1, 3, Fx(1, 4)>>,
                <<Fx(1, 2), Fx(2, 1), 2, 1, Fx(1, 1)>>,
                <<Fx(1, 4), Fx(1, 2), 3, 2, 0>> }

OnePlantInputs ==
    {[BaseOne EXCEPT !.dt = g[1], !.max_t = g[2]] : g \in TimeGrid}
    \cup
    {[BaseOne EXCEPT !.dt = Fx(1, 2), !.max_t = Fx(1, 1),
                     !.Y0 = s[1], !.B0 = s[2], !.N0 = s[3],
                     !.m = c[1], !.R = c[2], !.u = c[3], !.h = c[4],
                     !.q = c[5]] :
        s \in {v \in Levels \X Levels \X Levels : v[1] + v[2] + v[3] > 0},
        c \in OneConfigs}

BaseSeason ==
    [m |-> Fx(1, 10), d_yp |-> Fx(2, 10), d_b0 |-> Fx(5, 100),
     d_bp |-> Fx(1, 10), g_yp |-> Fx(3, 10), g_b0 |-> Fx(5, 100),
     g_bp |-> Fx(1, 10), L_0 |-> Fx(1, 1), P_max |-> Fx(5, 1), q |-> Fx(1, 2),
     s_0 |-> Fx(1, 1), h |-> 2, f_0 |-> Fx(1, 1), F_tilde |-> Fx(1, 1),
     u |-> 2, R_hat |-> Fx(1, 1), t0 |-> 0, k |-> 1, lambda |-> Fx(1, 2),
     dt |-> Fx(1, 10), max_t |-> Fx(1, 1),
     Y0 |-> Fx(1, 1), B0 |-> Fx(1, 1), N0 |-> Fx(1, 1)]

\* <<R_hat, t0, k, lambda>>
SeasonConfigs == { <<Fx(1, 1), 0, 1, Fx(1, 2)>>, <<Fx(2, 1), Fx(1, 5), 2, Fx(1, 2)>>,
                   <<Fx(1, 1), Fx(1, 2), 3, Fx(1, 1)>> }

SeasonInputs ==
    {[BaseSeason EXCEPT !.dt = g[1], !.max_t = g[2], !.R_hat = c[1],
                        !.t0 = c[2], !.k = c[3], !.lambda = c[4]] :
        g \in TimeGrid, c \in SeasonConfigs}
    \cup
    {[BaseSeason EXCEPT !.dt = Fx(1, 2), !.max_t = Fx(1, 2),
                        !.Y0 = s[1], !.B0 = s[2], !.N0 = s[3]] :
        s \in {v \in Levels \X Levels \X Levels : v[1] + v[2] + v[3] > 0}}

\* per-plant parameters of two kinds of plant
PlantA == [m |-> Fx(1, 10), d_yp |-> Fx(2, 10), d_b0 |-> Fx(5, 100),
           d_bp |-> Fx(1, 10), g_yp |-> Fx(3, 10), g_b0 |-> Fx(5, 100),
           g_bp |-> Fx(1, 10), L_0 |-> Fx(1, 1)]

PlantB == [m |-> Fx(2, 10), d_yp |-> Fx(1, 10), d_b0 |-> Fx(1, 10),
           d_bp |-> Fx(3, 10), g_yp |-> Fx(1, 2), g_b0 |-> Fx(2, 10),
           g_bp |-> Fx(3, 10), L_0 |-> Fx(1, 2)]

\* the arguments of a landscape of np plants: odd plants are of kind k1 and
\* start at s1 = <<Y0, B0>>, even plants are of kind k2 and start at s2
LandArgs(np, k1, k2, s1, s2, u, X, dt, max_t) ==
    LET kind(i) == IF i % 2 = 1 THEN k1 ELSE k2
        st(i) == IF i % 2 = 1 THEN s1 ELSE s2
    IN  [m    |-> [i \in 1..np |-> kind(i).m],
         d_yp |-> [i \in 1..np |-> kind(i).d_yp],
         d_b0 |-> [i \in 1..np |-> kind(i).d_b0],
         d_bp |-> [i \in 1..np |-> kind(i).d_bp],
         g_yp |-> [i \in 1..np |-> kind(i).g_yp],
         g_b0 |-> [i \in 1..np |-> kind(i).g_b0],
         g_bp |-> [i \in 1..np |-> kind(i).g_bp],
         L_0  |-> [i \in 1..np |-> kind(i).L_0],
         u |-> u, X |-> X,
         Y0 |-> [i \in 1..np |-> st(i)[1]],
         B0 |-> [i \in 1..np |-> st(i)[2]],
         dt |-> dt, max_t |-> max_t]

\* <<kind of odd plants, kind of even plants, u, X>>
LandConfigs == { <<PlantA, PlantA, 1, Fx(1, 1)>>, <<PlantA, PlantB, 2, Fx(1, 1)>>,
                 <<PlantA, PlantA, 2, 1>>, <<PlantB, PlantA, 1, 1>> }

StatePairs == {v \in PropLevels \X PropLevels : v[1] + v[2] <= Scale}

\* the per-plant vectors other than m
VecNames == {"d_yp", "d_b0", "d_bp", "g_yp", "g_b0", "g_bp", "L_0", "Y0", "B0"}

\* vector v made one longer (by a copy of its last element or a 0) or one shorter
Longer(v) == Append(v, IF v = <<>> THEN 0 ELSE v[Len(v)])

Shorter(v) == SubSeq(v, 1, Len(v) - 1)

LandGood ==
    {LandArgs(2, PlantA, PlantA, <<Fx(1, 2), Fx(1, 10)>>, <<Fx(1, 2), Fx(1, 10)>>,
              1, Fx(1, 1), g[1], g[2]) : g \in TimeGrid}
    \cup
    {LandArgs(np, c[1], c[2], s1, s2, c[3], c[4], Fx(1, 2), Fx(1, 1)) :
        np \in 0..MaxPlants, c \in LandConfigs, s1 \in StatePairs,
        s2 \in StatePairs}

LandBase(np) ==
    LandArgs(np, PlantA, PlantB, <<Fx(1, 2), Fx(1, 10)>>, <<0, Fx(1, 2)>>,
             1, Fx(1, 1), Fx(1, 2), Fx(1, 1))

LandBad ==
    {[LandBase(np) EXCEPT ![f] = Longer(@)] : np \in 0..MaxPlants, f \in VecNames}
    \cup
    {[LandBase(np) EXCEPT ![f] = Shorter(@)] : np \in 1..MaxPlants, f \in VecNames}
    \cup
    {[LandBase(np) EXCEPT !.Y0 = Longer(@), !.B0 = Shorter(@)] : np \in 1..MaxPlants}

LandInputs == LandGood \cup LandBad

Entries == {"one_plant_ode", "one_plant_season_ode", "landscape_constantF_ode"}

InputsOf(e) ==
    CASE e = "one_plant_ode" -> OnePlantInputs
      [] e = "one_plant_season_ode" -> SeasonInputs
      [] OTHER -> LandInputs

---------------------------------------------------------------------------
(* The state machine *)

NoCall == [x |-> <<>>, t |-> 0, dxdt |-> <<>>, P |-> <<>>, R |-> 0]

Init ==
    /\ entry \in Entries
    /\ inp \in InputsOf(entry)
    /\ run = 1
    /\ pc = "call"
    /\ x = <<>>
    /\ step = 0
    /\ stage = 0
    /\ ks = <<>>
    /\ obs = [data |-> <<>>, time |-> <<>>]
    /\ weights = <<>>
    /\ wts = <<>>
    /\ osamp = 0
    /\ output = EmptyMatrix
    /\ out1 = EmptyMatrix
    /\ ncalls = 0
    /\ call = NoCall

\* one_plant_ode up to the call of integrate_const
one_plant_ode_Enter ==
    /\ pc = "call"
    /\ entry = "one_plant_ode"
    /\ x' = << <<inp.Y0, inp.B0, inp.N0>> >>
    /\ obs' = OnePlantObserver
    /\ pc' = "observe"
    /\ step' = 0
    /\ stage' = 0
    /\ ks' = <<>>
    /\ ncalls' = 0
    /\ call' = NoCall
    /\ UNCHANGED <<entry, inp, run, weights, wts, osamp, output, out1>>

\* one_plant_season_ode up to the call of integrate_const
one_plant_season_ode_Enter ==
    /\ pc = "call"
    /\ entry = "one_plant_season_ode"
    /\ x' = << <<inp.Y0, inp.B0, inp.N0>> >>
    /\ obs' = Observer
    /\ pc' = "observe"
    /\ step' = 0
    /\ stage' = 0
    /\ ks' = <<>>
    /\ ncalls' = 0
    /\ call' = NoCall
    /\ UNCHANGED <<entry, inp, run, weights, wts, osamp, output, out1>>

\* landscape_constantF_ode when a length check fails: return NumericMatrix(0,0)
landscape_constantF_ode_Reject ==
    /\ pc = "call"
    /\ entry = "landscape_constantF_ode"
    /\ landscape_constantF_ode_err(inp)
    /\ output' = EmptyMatrix
    /\ pc' = "returned"
    /\ UNCHANGED <<entry, inp, run, x, step, stage, ks, obs, weights, wts,
                   osamp, out1, ncalls, call>>

\* landscape_constantF_ode up to the call of integrate_const
landscape_constantF_ode_Enter ==
    /\ pc = "call"
    /\ entry = "landscape_constantF_ode"
    /\ ~landscape_constantF_ode_err(inp)
    /\ x' = landscape_constantF_ode_x(inp)
    /\ obs' = Observer
    /\ weights' = LandConstFSystemFunction_weights(inp)
    /\ pc' = "observe"
    /\ step' = 0
    /\ stage' = 0
    /\ ks' = <<>>
    /\ ncalls' = 0
    /\ call' = NoCall
    /\ UNCHANGED <<entry, inp, run, wts, osamp, output, out1>>

\* integrate_const: the observer is called with the current state and time,
\* before each step and once more after the last one
Observe ==
    /\ pc = "observe"
    /\ obs' = IF entry = "one_plant_ode"
              THEN OnePlantObserver_call(obs, x, step * inp.dt)
              ELSE Observer_call(obs, x, step * inp.dt)
    /\ IF CanStep(step, inp.dt, inp.max_t)
       THEN pc' = "step" /\ stage' = 1
       ELSE pc' = "assemble" /\ stage' = 0
    /\ UNCHANGED <<entry, inp, run, x, step, ks, weights, wts, osamp, output,
                   out1, ncalls, call>>

\* the system function invoked by stage st of do_step
Invoke(st) ==
    LET arg == StageArg(x, ks, st, inp.dt)
        ts == StageTime(step * inp.dt, st, inp.dt)
    IN  CASE entry = "one_plant_ode" ->
               LET r == OnePlantSystemFunction_call(OnePlantSystemFunction(inp), arg, ts)
               IN  [x |-> arg, t |-> ts, dxdt |-> r.dxdt, P |-> <<r.P>>,
                    R |-> r.R, weights |-> weights]
          [] entry = "one_plant_season_ode" ->
               LET r == OnePlantSeasonSystemFunction_call(
                            OnePlantSeasonSystemFunction(inp), arg, ts)
               IN  [x |-> arg, t |-> ts, dxdt |-> r.dxdt, P |-> <<r.P>>,
                    R |-> r.R, weights |-> weights]
          [] OTHER ->
               LET r == LandConstFSystemFunction_call(
                            LandConstFSystemFunction(inp), weights, arg, ts)
               IN  [x |-> arg, t |-> ts, dxdt |-> r.dxdt, P |-> r.P,
                    R |-> 0, weights |-> r.weights]

\* do_step: one stage evaluation; the last one completes the step
SysCall ==
    /\ pc = "step"
    /\ LET r == Invoke(stage)
           kk == Append(ks, r.dxdt)
       IN  /\ call' = [x |-> r.x, t |-> r.t, dxdt |-> r.dxdt, P |-> r.P, R |-> r.R]
           /\ weights' = r.weights
           /\ ncalls' = ncalls + 1
           /\ IF stage = NStages
              THEN /\ x' = StepResult(x, kk, inp.dt)
                   /\ step' = step + 1
                   /\ ks' = <<>>
                   /\ stage' = 0
                   /\ pc' = "observe"
              ELSE /\ stage' = stage + 1
                   /\ ks' = kk
                   /\ UNCHANGED <<x, step, pc>>
    /\ UNCHANGED <<entry, inp, run, obs, wts, osamp, output, out1>>

\* after integrate_const: n_steps = obs.data.size(), the output matrix and,
\* in the landscape, the local wts(np)
BeginOutput ==
    /\ pc = "assemble"
    /\ output' = [nrow |-> IF entry = "landscape_constantF_ode"
                           THEN Len(obs.data) * Len(inp.m)
                           ELSE Len(obs.data),
                  ncol |-> 5, rows |-> <<>>]
    /\ wts' = IF entry = "landscape_constantF_ode"
              THEN [i \in 1..Len(inp.m) |-> 0] ELSE wts
    /\ osamp' = 0
    /\ pc' = "output"
    /\ UNCHANGED <<entry, inp, run, x, step, stage, ks, obs, weights, out1,
                   ncalls, call>>

\* the rows of sample i of the output loop, given the landscape's wts
OutputRows(i, w) ==
    LET s == obs.data[i]
    IN  CASE entry = "one_plant_ode" ->
               << <<obs.time[i], s[1][1], s[1][2], s[1][3],
                    one_plant_ode_P(inp, s[1])>> >>
          [] entry = "one_plant_season_ode" ->
               << <<obs.time[i], s[1][1], s[1][2], s[1][3],
                    one_plant_season_ode_P(inp, s[1])>> >>
          [] OTHER ->
               [k \in 1..Len(inp.m) |->
                   <<obs.time[i], (k - 1) * Scale, s[k][1], s[k][2], w[k]>>]

\* one iteration of the output loop over the recorded samples
OutputSample ==
    /\ pc = "output"
    /\ osamp < Len(obs.data)
    /\ LET w == IF entry = "landscape_constantF_ode"
                THEN make_weights(LandConstFSystemFunction(inp), wts,
                                  obs.data[osamp + 1])
                ELSE wts
       IN  /\ wts' = w
           /\ output' = [output EXCEPT !.rows = @ \o OutputRows(osamp + 1, w)]
    /\ osamp' = osamp + 1
    /\ UNCHANGED <<entry, inp, run, pc, x, step, stage, ks, obs, weights, out1,
                   ncalls, call>>

\* return output
Return ==
    /\ pc = "output"
    /\ osamp = Len(obs.data)
    /\ pc' = "returned"
    /\ UNCHANGED <<entry, inp, run, x, step, stage, ks, obs, weights, wts, osamp,
                   output, out1, ncalls, call>>

\* the caller keeps the result and calls the entry point again with the same
\* arguments
CallAgain ==
    /\ pc = "returned"
    /\ run = 1
    /\ out1' = output
    /\ run' = 2
    /\ pc' = "call"
    /\ UNCHANGED <<entry, inp, x, step, stage, ks, obs, weights, wts, osamp,
                   output, ncalls, call>>

Next ==
    \/ one_plant_ode_Enter
    \/ one_plant_season_ode_Enter
    \/ landscape_constantF_ode_Reject
    \/ landscape_constantF_ode_Enter
    \/ Observe
    \/ SysCall
    \/ BeginOutput
    \/ OutputSample
    \/ Return
    \/ CallAgain

Spec == Init /\ [][Next]_vars

---------------------------------------------------------------------------
(* Properties *)

SinglePlant == entry \in {"one_plant_ode", "one_plant_season_ode"}

Landscape == entry = "landscape_constantF_ode"

\* some per-plant vector's length differs from the plant count
Mismatch == Landscape /\ \E f \in VecNames : Len(inp[f]) # Len(inp.m)

\* integrate_const has returned in the current call
Integrated == pc \in {"assemble", "output", "returned"} /\ ~Mismatch

\* the two sides of the derivative identity at the last invocation
DerivSum == call.dxdt[1][1] + call.dxdt[1][2] + call.dxdt[1][3]

DerivRhs == call.R - FxMul(inp.m, call.x[1][1] + call.x[1][2] + call.x[1][3])

DoneSamples == IF Len(inp.m) = 0 THEN 0 ELSE Len(output.rows) \div Len(inp.m)

\* the B and P columns of plant k in sample t of the landscape's output
OutB(t, k) == output.rows[(t - 1) * Len(inp.m) + k][4]

OutP(t, k) == output.rows[(t - 1) * Len(inp.m) + k][5]

OutPSum(t) == SeqSum([k \in 1..Len(inp.m) |-> OutP(t, k)])

\* C2, as stated: for every recorded sample of the landscape model with X > 0,
\* the weights of the sample sum to strictly less than 1 and each is > 0.
C2_SumBelowOneAllPositive ==
    (Landscape /\ ~Mismatch /\ inp.X > 0) =>
        \A t \in 1..DoneSamples :
            /\ OutPSum(t) < Scale
            /\ \A k \in 1..Len(inp.m) : OutP(t, k) > 0

\* C2, as amended: for every recorded sample of the landscape model with X > 0
\* and every B_i <= 1, each weight is >= 0, the weight of a plant with B_i = 1
\* is 0 (u > 0), and the weights sum to at most 1 up to the rounding of the
\* quotients (half a unit in the last place each).
C2_NonNegativeSumAtMostOne ==
    (Landscape /\ ~Mismatch /\ inp.X > 0) =>
        \A t \in 1..DoneSamples :
            (\A k \in 1..Len(inp.m) : OutB(t, k) <= Scale) =>
                /\ \A k \in 1..Len(inp.m) :
                      /\ OutP(t, k) >= 0
                      /\ (OutB(t, k) = Scale /\ inp.u > 0) => OutP(t, k) = 0
                /\ 2 * OutPSum(t) <= 2 * Scale + Len(inp.m)

\* C2's case: a returned landscape run of two plants with X > 0 that has a
\* sample in which one plant has B = 1 and the other a positive weight
C2_Witness ==
    /\ Landscape /\ ~Mismatch /\ inp.X > 0
    /\ pc = "returned"
    /\ Len(inp.m) = 2
    /\ DoneSamples > 1
    /\ \E t \in 1..DoneSamples :
          \E k, l \in 1..2 : OutB(t, k) = Scale /\ OutP(t, k) = 0 /\ OutP(t, l) > 0

\* the recorded times are 0, dt, 2 dt, ...
OnGrid == \A i \in 1..Len(obs.time) : obs.time[i] = (i - 1) * inp.dt

Increasing ==
    \A i, j \in 1..Len(obs.time) : i < j => obs.time[i] < obs.time[j]

\* C3, as stated: the recorded times start at 0, increase strictly, are spaced
\* by dt, and the last one is at or past max_t.
C3_EndsAtOrPastHorizon ==
    ~Mismatch =>
        /\ OnGrid /\ Increasing
        /\ Integrated =>
              /\ obs.time[1] = 0
              /\ obs.time[Len(obs.time)] >= inp.max_t

\* C3, as amended: the recorded times start at 0, increase strictly, are
\* spaced by dt, and the last one is the largest multiple of dt that does not
\* exceed max_t (max_t - dt < last <= max_t).
C3_EndsAtOrBeforeHorizon ==
    ~Mismatch =>
        /\ OnGrid /\ Increasing
        /\ Integrated =>
              /\ obs.time[1] = 0
              /\ obs.time[Len(obs.time)] <= inp.max_t
              /\ inp.max_t < obs.time[Len(obs.time)] + inp.dt

\* C3's case: integration has ended in a run whose dt does not divide max_t,
\* after more than one step
C3_Witness ==
    /\ Integrated
    /\ inp.max_t % inp.dt # 0
    /\ step > 1
    /\ Len(obs.time) = step + 1

\* the concrete scenario of one_plant_ode: dt = 0.1, max_t = 1.0
Scenario == entry = "one_plant_ode" /\ inp = BaseOne

\* C4, as stated: the observer is invoked once per completed step and only
\* then; in the scenario the output has exactly 10 rows, at times 0.1 .. 1.0.
C4_TenRows ==
    (Scenario /\ pc = "returned") =>
        /\ Len(obs.data) = step
        /\ output.nrow = 10
        /\ Len(output.rows) = 10
        /\ \A i \in 1..Len(output.rows) : output.rows[i][1] = i * inp.dt

\* C4, as amended: the observer is invoked once with the initial state and
\* once per completed step; in the scenario 10 steps are taken and the output
\* has exactly 11 rows, at times 0, 0.1 .. 1.0, the first being the initial
\* state.
C4_ElevenRows ==
    (entry = "one_plant_ode" /\ pc = "returned") =>
        /\ Len(obs.data) = step + 1
        /\ output.nrow = step + 1
        /\ Len(output.rows) = output.nrow
        /\ \A i \in 1..Len(output.rows) : output.rows[i][1] = (i - 1) * inp.dt
        /\ SubSeq(output.rows[1], 2, 4) = <<inp.Y0, inp.B0, inp.N0>>
        /\ Scenario => (step = 10 /\ output.nrow = 11)

\* C4's case: the scenario has returned
C4_Witness ==
    /\ Scenario /\ pc = "returned"
    /\ ncalls > 0
    /\ output.rows[11][1] = inp.max_t

\* C5: when dt equals max_t, a run takes exactly one step and records exactly
\* one sample with time > 0, at t = max_t.
C5_Fencepost ==
    (Integrated /\ inp.dt = inp.max_t) =>
        /\ step = 1
        /\ Cardinality({i \in 1..Len(obs.time) : obs.time[i] > 0}) = 1
        /\ obs.time[Len(obs.time)] = inp.max_t
        /\ Len(obs.data) = 2

\* C5's case: a seasonal run with dt = max_t has returned
C5_Witness ==
    /\ entry = "one_plant_season_ode"
    /\ inp.dt = inp.max_t
    /\ pc = "returned"
    /\ obs.data[2] # obs.data[1]

\* two plants with the same parameters and the same initial (Y0, B0)
Symmetric ==
    /\ Landscape /\ ~Mismatch
    /\ Len(inp.m) = 2
    /\ \A f \in VecNames \cup {"m"} : inp[f][1] = inp[f][2]

\* C6: in a landscape of two identical plants, the two rows of the state are
\* equal in every invocation's result, after every step and in every recorded
\* sample, and the two plants' weights are equal in every sample.
C6_SymmetryPreserved ==
    Symmetric =>
        /\ Len(x) = 2 => x[1] = x[2]
        /\ ncalls > 0 => (call.dxdt[1] = call.dxdt[2] /\ call.P[1] = call.P[2])
        /\ \A i \in 1..Len(obs.data) : obs.data[i][1] = obs.data[i][2]
        /\ \A t \in 1..DoneSamples :
              SubSeq(output.rows[2 * t - 1], 3, 5) = SubSeq(output.rows[2 * t], 3, 5)

\* C6's case: a symmetric run has returned after at least two steps that
\* changed the state, with positive weights
C6_Witness ==
    /\ Symmetric
    /\ pc = "returned"
    /\ step >= 2
    /\ x # landscape_constantF_ode_x(inp)
    /\ obs.data[2] # obs.data[1]
    /\ OutP(1, 1) > 0
    /\ OutP(DoneSamples, 1) # OutP(1, 1)

\* C7: the second call of an entry point with the same arguments returns the
\* same matrix as the first.
C7_SameResultTwice == (pc = "returned" /\ run = 2) => output = out1

\* C7's case: the second call of the landscape model has returned a result of
\* several samples, its weights member holding the last invocation's weights
C7_Witness ==
    /\ Landscape /\ ~Mismatch
    /\ pc = "returned" /\ run = 2
    /\ Len(inp.m) = 2
    /\ DoneSamples > 2
    /\ \E i \in 1..2 : weights[i] # 0
    /\ out1.nrow = 2 * DoneSamples

\* C8: landscape_constantF_ode returns the empty matrix, without building the
\* state, invoking the system function or integrating, when some vector's
\* length differs from that of m; otherwise it integrates and returns a
\* matrix of 5 columns.
C8_LengthCheck ==
    Landscape =>
        /\ Mismatch =>
              /\ pc \in {"call", "returned"}
              /\ x = <<>> /\ ncalls = 0 /\ obs.data = <<>>
              /\ pc = "returned" => output = EmptyMatrix
        /\ (~Mismatch /\ pc = "returned") =>
              /\ output # EmptyMatrix
              /\ output.ncol = 5
              /\ Len(obs.data) >= 1
              /\ output.nrow = Len(obs.data) * Len(inp.m)
              /\ Len(output.rows) = output.nrow

\* C8's case: a call with a B0 of the wrong length has returned
C8_Witness ==
    /\ Mismatch
    /\ Len(inp.B0) # Len(inp.m)
    /\ \A f \in VecNames \ {"B0"} : Len(inp[f]) = Len(inp.m)
    /\ pc = "returned"
    /\ output = EmptyMatrix

\* C9: in every row of a single-plant entry point's output, the P column is
\* the P its dynamics function computes for the row's state.
C9_OutputPIsDynamicsP ==
    (SinglePlant /\ pc = "returned") =>
        \A i \in 1..Len(output.rows) :
            LET row == output.rows[i]
                s == << SubSeq(row, 2, 4) >>
            IN  row[5] = IF entry = "one_plant_ode"
                         THEN OnePlantSystemFunction_call(
                                  OnePlantSystemFunction(inp), s, row[1]).P
                         ELSE OnePlantSeasonSystemFunction_call(
                                  OnePlantSeasonSystemFunction(inp), s, row[1]).P

\* the allocation weights of state xx: w_i / (X + sum_j w_j), w_j = (1 - B_j)^u
Allocation(xx) ==
    LET w == [j \in 1..Len(xx) |-> FxPow(Scale - xx[j][2], inp.u)]
    IN  [i \in 1..Len(xx) |-> FxDiv(w[i], inp.X + SeqSum(w))]

\* C10: in every invocation of the landscape's dynamics function, the weight
\* used for plant i is w_i / (X + sum_j w_j) of the state passed to that
\* invocation.
C10_WeightsOfThisInvocation ==
    (Landscape /\ ncalls > 0) =>
        /\ call.P = Allocation(call.x)
        /\ \A i \in 1..Len(inp.m) :
              call.dxdt[i] = one_plant(LandConstFSystemFunction(inp),
                                       Allocation(call.x), i, call.x, call.t)

\* C10's case: an invocation in the second call, after the first call's output
\* loop, on a state whose weights differ from the initial state's and from
\* those the output loop left in wts
C10_Witness ==
    /\ Landscape /\ run = 2 /\ pc = "step"
    /\ ncalls > 1
    /\ Len(inp.m) = 2
    /\ call.P # Allocation(landscape_constantF_ode_x(inp))
    /\ call.P # wts
    /\ \E i \in 1..2 : wts[i] # 0

===========================================================================
